---- MODULE Spec2Model ----
(***************************************************************************)
(* A model of the WordPress RAG backend (src/app): the content             *)
(* synchronisation pipeline (fetch, diff, chunk, index), the query path    *)
(* with its process-wide conversation table, and the route handlers that  *)
(* drive them.                                                             *)
(*                                                                         *)
(* Texts are modelled by what the code measures of them.  A sentence is    *)
(* its length in characters, a text is the sequence of its sentences, and  *)
(* ' '.join puts one separator between neighbours.  Identifiers that the   *)
(* code compares as strings are sequences of character codes.             *)
(***************************************************************************)
EXTENDS Integers, Sequences, FiniteSets, Bags, TLC

VARIABLES
    users,          \* relational store: user id -> [email, url]
    nextUid,        \* the next user id the store hands out (uuid: never reused)
    tokens,         \* user ids for which an access token was returned
    blobs,          \* object store: user id -> [posts, chunked_posts]
    collections,    \* vector store: user id -> NoCollection or (entry id -> entry)
    conversations,  \* routes.conversations: conversation id -> turns
    authors,        \* history: conversation id -> the user whose request made
                    \* the entry, and the user behind each of its turns
    queries,        \* query requests suspended at the user lookup (a bag)
    handlers,       \* bag of the register, update and delete requests
                    \* suspended at an await on the relational store
    tasks,          \* bag of the background_update tasks added and not yet
                    \* finished
    last,           \* what the request or task that ended in the step just
                    \* taken did and answered, Idle when none ended
    fn              \* the pure-function harness: input, loop state, output

vars == <<users, nextUid, tokens, blobs, collections, conversations, authors,
          queries, handlers, tasks, last, fn>>

appVars == <<users, nextUid, tokens, blobs, collections, conversations, authors,
             queries, handlers, tasks, last>>


(***************************************************************************)
(* Sequence helpers.                                                       *)
(***************************************************************************)
RECURSIVE SumSeq(_)
SumSeq(s) == IF s = <<>> THEN 0 ELSE Head(s) + SumSeq(Tail(s))

RECURSIVE Flatten(_)
Flatten(ss) == IF ss = <<>> THEN <<>> ELSE Head(ss) \o Flatten(Tail(ss))

Min(a, b) == IF a <= b THEN a ELSE b

\* s[-n:] of Python
LastN(s, n) == SubSeq(s, Len(s) - Min(n, Len(s)) + 1, Len(s))

\* the sequences over S of length at most n
SeqsUpTo(S, n) == UNION {[1..k -> S] : k \in 0..n}

(***************************************************************************)
(* Strings as sequences of character codes; Python compares str values by  *)
(* code point, position by position, a proper prefix being smaller.        *)
(***************************************************************************)
RECURSIVE StrLess(_, _)
StrLess(a, b) ==
    IF b = <<>> THEN FALSE
    ELSE IF a = <<>> THEN TRUE
    ELSE IF Head(a) # Head(b) THEN Head(a) < Head(b)
    ELSE StrLess(Tail(a), Tail(b))

\* min(keys) over str keys
MinStr(S) == CHOOSE m \in S : \A x \in S : x = m \/ StrLess(m, x)

\* str(n) for a non-negative int: its decimal digits ("0" is code 48)
RECURSIVE Str(_)
Str(n) == IF n < 10 THEN <<48 + n>> ELSE Str(n \div 10) \o <<48 + (n % 10)>>

\* len(text): the sentences and one separator between neighbours
TextLen(t) == IF t = <<>> THEN 0 ELSE SumSeq(t) + (Len(t) - 1)

(***************************************************************************)
(* Differ: helpers.posts_are_equal and the new_posts comprehension of      *)
(* background_update.  A post is [id, modified, title, content]; its link   *)
(* travels with its title and is not modelled apart from it.               *)
(***************************************************************************)
\* two mutants: the revision ignored, and the revision compared by order
posts_are_equal_ignoring_modified(post1, post2) ==
    Str(post1.id) = Str(post2.id)

posts_are_equal_ordered(post1, post2) ==
    Str(post1.id) = Str(post2.id) /\ post1.modified <= post2.modified

posts_are_equal(post1, post2) ==
    Str(post1.id) = Str(post2.id) /\ post1.modified = post2.modified

\* the mutant tests "all" where the code tests "any"
RECURSIVE new_posts_all(_, _)
new_posts_all(latest_posts, existing_posts) ==
    IF latest_posts = <<>> THEN <<>>
    ELSE LET post == Head(latest_posts)
             rest == new_posts_all(Tail(latest_posts), existing_posts)
         IN  IF \A i \in 1..Len(existing_posts) :
                    posts_are_equal(post, existing_posts[i])
             THEN rest
             ELSE <<post>> \o rest

RECURSIVE new_posts(_, _)
new_posts(latest_posts, existing_posts) ==
    IF latest_posts = <<>> THEN <<>>
    ELSE LET post == Head(latest_posts)
             rest == new_posts(Tail(latest_posts), existing_posts)
         IN  IF \E i \in 1..Len(existing_posts) :
                    posts_are_equal(post, existing_posts[i])
             THEN rest
             ELSE <<post>> \o rest

(***************************************************************************)
(* Chunker: the sentence loop of helpers.chunk_posts.  current_chunk is a  *)
(* list of strings; the overlap string it is re-seeded with may itself     *)
(* hold several sentences, so every list item is a text.                   *)
(***************************************************************************)
max_chunk_size == 1000

ChunkStart == [chunks |-> <<>>, current_chunk |-> <<>>, current_size |-> 0]

\* ' '.join(items)
Join(items) == Flatten(items)

\* one iteration of "for sentence in sentences"
ChunkStep(st, sentence) ==
    LET sentence_size == sentence
    IN  IF st.current_size + sentence_size > max_chunk_size
           /\ st.current_chunk # <<>>
        THEN LET chunk_text == Join(st.current_chunk)
                 overlap_text == Join(LastN(st.current_chunk, 2))
             IN  [chunks |-> Append(st.chunks, chunk_text),
                  current_chunk |-> <<overlap_text, <<sentence>> >>,
                  current_size |-> TextLen(overlap_text) + sentence_size]
        ELSE [chunks |-> st.chunks,
              current_chunk |-> Append(st.current_chunk, <<sentence>>),
              current_size |-> st.current_size + sentence_size]

\* "if current_chunk: chunks.append(' '.join(current_chunk))"
ChunkEnd(st) ==
    IF st.current_chunk # <<>>
    THEN Append(st.chunks, Join(st.current_chunk))
    ELSE st.chunks

RECURSIVE ChunkLoop(_, _)
ChunkLoop(st, sentences) ==
    IF sentences = <<>> THEN st
    ELSE ChunkLoop(ChunkStep(st, Head(sentences)), Tail(sentences))

\* the chunks of one post's sentences
ChunkSentences(sentences) == ChunkEnd(ChunkLoop(ChunkStart, sentences))

\* post['content']['rendered'] of a post that has no such field raises inside
\* the try, and the post is skipped.  A content is [readable, sentences]:
\* the sentences that clean_html_content and sent_tokenize make of it.
Readable(sentences) == [readable |-> TRUE, sentences |-> sentences]
Unreadable == [readable |-> FALSE, sentences |-> <<>>]

RECURSIVE chunk_posts(_)
chunk_posts(posts) ==
    IF posts = <<>> THEN <<>>
    ELSE LET post == Head(posts)
             rest == chunk_posts(Tail(posts))
         IN  IF ~post.content.readable THEN rest
             ELSE <<[id |-> post.id, title |-> post.title,
                     chunks |-> ChunkSentences(post.content.sentences)]>> \o rest

(***************************************************************************)
(* Fetcher: helpers.fetch_wordpress_posts under tenacity's retry.  The     *)
(* feed is the sequence of answers it gives to successive page requests;   *)
(* a request past the end of that sequence is answered by an empty page.   *)
(*   ok        200 with a non-empty list of posts                          *)
(*   empty     200 with an empty list                                      *)
(*   s400      status 400                                                  *)
(*   httperr   another error status: raise_for_status raises HTTPError     *)
(*   neterr    requests.get raises ConnectionError or Timeout              *)
(*   malformed 200 with a body that is no list: extend raises TypeError    *)
(***************************************************************************)
stop_after_attempt == 3

RespAt(resps, n) == IF n <= Len(resps) THEN resps[n] ELSE [kind |-> "empty"]

\* "except requests.RequestException: log; break"
OnRequestException(all_posts, n) ==
    [raised |-> FALSE, posts |-> all_posts, requests |-> n]

\* the mutant takes status 400 for an error
RECURSIVE FetchLoop_400_raises(_, _, _)
FetchLoop_400_raises(resps, n, all_posts) ==
    LET r == RespAt(resps, n)
    IN  CASE r.kind = "neterr" -> OnRequestException(all_posts, n)
          [] r.kind = "s400" ->
                [raised |-> TRUE, posts |-> <<>>, requests |-> n]
          [] r.kind = "httperr" -> OnRequestException(all_posts, n)
          [] r.kind = "malformed" ->
                [raised |-> TRUE, posts |-> <<>>, requests |-> n]
          [] r.kind = "empty" ->
                [raised |-> FALSE, posts |-> all_posts, requests |-> n]
          [] OTHER -> FetchLoop_400_raises(resps, n + 1, all_posts \o r.posts)

\* the while loop of one attempt, from request number n
RECURSIVE FetchLoop(_, _, _)
FetchLoop(resps, n, all_posts) ==
    LET r == RespAt(resps, n)
    IN  CASE r.kind = "neterr" -> OnRequestException(all_posts, n)
          [] r.kind = "s400" ->
                [raised |-> FALSE, posts |-> all_posts, requests |-> n]
          [] r.kind = "httperr" -> OnRequestException(all_posts, n)
          [] r.kind = "malformed" ->
                [raised |-> TRUE, posts |-> <<>>, requests |-> n]
          [] r.kind = "empty" ->
                [raised |-> FALSE, posts |-> all_posts, requests |-> n]
          [] OTHER -> FetchLoop(resps, n + 1, all_posts \o r.posts)

\* @retry(stop=stop_after_attempt(3)): an attempt that raises is run again
\* from page 1; after the last attempt tenacity raises RetryError.
RECURSIVE FetchAttempts(_, _, _)
FetchAttempts(resps, n, attempt) ==
    LET a == FetchLoop(resps, n, <<>>)
    IN  IF ~a.raised
        THEN [ok |-> TRUE, posts |-> a.posts, requests |-> a.requests,
              attempts |-> attempt]
        ELSE IF attempt >= stop_after_attempt
        THEN [ok |-> FALSE, posts |-> <<>>, requests |-> a.requests,
              attempts |-> attempt]
        ELSE FetchAttempts(resps, a.requests + 1, attempt + 1)

fetch_wordpress_posts(resps) == FetchAttempts(resps, 1, 1)

\* the page requests of a fetch that failed (network error or error status)
FailedRequests(resps, requests) ==
    {n \in 1..Min(requests, Len(resps)) : resps[n].kind \in {"neterr", "httperr"}}

(***************************************************************************)
(* The application state right after the module routes.py is loaded.       *)
(***************************************************************************)
UserIds == {1, 2}

NoBlob == [present |-> FALSE, data |-> <<>>]

NoCollection == [exists |-> FALSE, entries |-> <<>>]

Idle == [op |-> "none"]

AppInit ==
    /\ users = <<>>
    /\ nextUid = 1
    /\ tokens = {}
    /\ blobs = [u \in UserIds |-> [posts |-> NoBlob, chunked_posts |-> NoBlob]]
    /\ collections = [u \in UserIds |-> NoCollection]
    /\ conversations = <<>>
    /\ authors = <<>>
    /\ queries = EmptyBag
    /\ handlers = EmptyBag
    /\ tasks = EmptyBag
    /\ last = Idle

(***************************************************************************)
(* Harness for the pure functions: Init draws the input, one action        *)
(* applies the function (the chunker, sentence by sentence).               *)
(***************************************************************************)
Titles == {"t1", "t2"}

Revisions == {1, 2}

EqPosts ==
    [id : {1, 2, 12}, modified : Revisions, title : Titles,
     content : {Readable(<<5>>), Readable(<<7>>)}]

EqInit ==
    /\ AppInit
    /\ \E a \in EqPosts, b \in EqPosts :
          fn = [op |-> "eq", pc |-> "in", post1 |-> a, post2 |-> b, out |-> FALSE]

EqApply ==
    /\ fn.op = "eq" /\ fn.pc = "in"
    /\ fn' = [fn EXCEPT !.pc = "out", !.out = posts_are_equal(fn.post1, fn.post2)]
    /\ UNCHANGED appVars

SpecEq == EqInit /\ [][EqApply]_vars

MaxDiffLen == 2

\* two ids in two revisions, and a retitled copy of one of them
DiffPosts ==
    [id : {1, 2}, modified : Revisions, title : {"t1"}, content : {Readable(<<5>>)}]
    \cup {[id |-> 1, modified |-> 1, title |-> "t2", content |-> Readable(<<7>>)]}

DiffInit ==
    /\ AppInit
    /\ \E l \in SeqsUpTo(DiffPosts, MaxDiffLen), c \in SeqsUpTo(DiffPosts, MaxDiffLen) :
          fn = [op |-> "diff", pc |-> "in", latest |-> l, cached |-> c, out |-> <<>>]

DiffApply ==
    /\ fn.op = "diff" /\ fn.pc = "in"
    /\ fn' = [fn EXCEPT !.pc = "out", !.out = new_posts(fn.latest, fn.cached)]
    /\ UNCHANGED appVars

SpecDiff == DiffInit /\ [][DiffApply]_vars

MaxSentences == 4

\* sentence lengths around the limit: two that fill a chunk exactly, one
\* longer than a chunk
ChunkInit ==
    /\ AppInit
    /\ \E ss \in SeqsUpTo({400, 600, 1001}, MaxSentences) :
          fn = [op |-> "chunk", pc |-> "loop", sentences |-> ss, i |-> 1,
                st |-> ChunkStart, closed |-> FALSE, out |-> <<>>]

\* one pass of the sentence loop; closed tells whether it closed a chunk
ChunkSentence ==
    /\ fn.op = "chunk" /\ fn.pc = "loop" /\ fn.i <= Len(fn.sentences)
    /\ LET st2 == ChunkStep(fn.st, fn.sentences[fn.i])
       IN  fn' = [fn EXCEPT !.st = st2, !.i = fn.i + 1,
                            !.closed = Len(st2.chunks) > Len(fn.st.chunks)]
    /\ UNCHANGED appVars

ChunkFinish ==
    /\ fn.op = "chunk" /\ fn.pc = "loop" /\ fn.i > Len(fn.sentences)
    /\ fn' = [fn EXCEPT !.pc = "done", !.out = ChunkEnd(fn.st), !.closed = FALSE]
    /\ UNCHANGED appVars

SpecChunk == ChunkInit /\ [][ChunkSentence \/ ChunkFinish]_vars

MaxRequests == 3

PageA == <<[id |-> 1, modified |-> 1, title |-> "t1", content |-> Readable(<<5>>)]>>

PageB == <<[id |-> 2, modified |-> 1, title |-> "t1", content |-> Readable(<<5>>)]>>

Responses ==
    {[kind |-> "ok", posts |-> PageA], [kind |-> "ok", posts |-> PageB]}
    \cup {[kind |-> k] : k \in {"empty", "s400", "httperr", "neterr", "malformed"}}

FetchInit ==
    /\ AppInit
    /\ \E rs \in SeqsUpTo(Responses, MaxRequests) :
          fn = [op |-> "fetch", pc |-> "in", resps |-> rs,
                out |-> [ok |-> FALSE, posts |-> <<>>, requests |-> 0, attempts |-> 0]]

FetchApply ==
    /\ fn.op = "fetch" /\ fn.pc = "in"
    /\ fn' = [fn EXCEPT !.pc = "out", !.out = fetch_wordpress_posts(fn.resps)]
    /\ UNCHANGED appVars

SpecFetch == FetchInit /\ [][FetchApply]_vars

(***************************************************************************)
(* ChromaService._sanitize_collection_name.  re.sub(r'[^\w\-]', '_', name)  *)
(* works on str, so \w is Unicode's: it keeps letters and digits of every   *)
(* script and the underscore; str.isalnum is Unicode's as well.             *)
(***************************************************************************)
\* "if len(sanitized) < 3" and "if len(sanitized) > 63"
min_name_len == 3

max_name_len == 63

AsciiAlnum == (48..57) \cup (65..90) \cup (97..122)

\* c.isalnum(); of the letters outside ASCII, e-acute (code 233)
IsAlnum(c) == c \in AsciiAlnum \cup {233}

\* "user", "_collection"
StrUser == <<117, 115, 101, 114>>

StrCollection == <<95, 99, 111, 108, 108, 101, 99, 116, 105, 111, 110>>

\* name is not empty: sanitized[0] of an empty string raises IndexError;
\* [^\w\-] does not match word characters and "-" (code 45)
sanitize_collection_name(name) ==
    LET s1 == [i \in 1..Len(name) |->
                  IF IsAlnum(name[i]) \/ name[i] = 95 \/ name[i] = 45
                  THEN name[i] ELSE 95]
        s2 == IF ~IsAlnum(s1[1]) THEN StrUser \o s1 ELSE s1
        s3 == IF Len(s2) < min_name_len THEN s2 \o StrCollection ELSE s2
        s4 == IF Len(s3) > max_name_len THEN SubSeq(s3, 1, max_name_len) ELSE s3
        s5 == IF ~IsAlnum(s4[Len(s4)]) THEN s4 \o <<48>> ELSE s4
    IN  s5

\* get_or_create_collection and delete_collection sanitize f"user_{user_id}"
CollectionName(user_id) == sanitize_collection_name(StrUser \o <<95>> \o user_id)

\* Inputs: a head and a tail over a few characters around a run of "a"
\* long enough to reach the length limit.  "a", "1", "_", "-", "!", " ",
\* e-acute.
MaxHead == 1

MaxTail == 2

MaxPad == 62

Pad(k) == [i \in 1..k |-> 97]

SanitizeInit ==
    /\ AppInit
    /\ LET NameChars == {97, 49, 95, 45, 33, 32, 233}
           PadLens == {0} \cup ((MaxPad - 5)..MaxPad)
       IN
       \E h \in SeqsUpTo(NameChars, MaxHead), k \in PadLens,
          t \in SeqsUpTo(NameChars, MaxTail), prefixed \in BOOLEAN :
          /\ h \o Pad(k) \o t # <<>>
          /\ fn = [op |-> "sanitize", pc |-> "in", prefixed |-> prefixed,
                   user_id |-> h \o Pad(k) \o t, out |-> <<>>, again |-> <<>>]

\* the function called twice: on the identifier itself, or as the services
\* call it, on "user_" and the identifier
SanitizeApply ==
    /\ fn.op = "sanitize" /\ fn.pc = "in"
    /\ fn' = [fn EXCEPT !.pc = "out",
                        !.out = IF fn.prefixed THEN CollectionName(fn.user_id)
                                ELSE sanitize_collection_name(fn.user_id),
                        !.again = IF fn.prefixed THEN CollectionName(fn.user_id)
                                  ELSE sanitize_collection_name(fn.user_id)]
    /\ UNCHANGED appVars

SpecSanitize == SanitizeInit /\ [][SanitizeApply]_vars

(***************************************************************************)
(* Object store (S3Service) and vector store (ChromaService, and           *)
(* helpers.update_chroma_index).                                           *)
(***************************************************************************)
Saved(data) == [present |-> TRUE, data |-> data]

\* ChromaService.get_or_create_collection
get_or_create_collection(c) ==
    IF c.exists THEN c ELSE [exists |-> TRUE, entries |-> <<>>]

\* ChromaService.delete_collection: client.delete_collection raises for a
\* name the store has no collection of, and the service logs and re-raises
delete_collection(c) ==
    IF c.exists THEN [raised |-> FALSE, coll |-> [exists |-> FALSE, entries |-> <<>>]]
    ELSE [raised |-> TRUE, coll |-> c]

batch_size == 100

\* f"{post['id']}_{i}" ("_" is code 95)
EntryId(post, i) == Str(post.id) \o <<95>> \o Str(i)

\* the entries of the chunks numbered i .. j-1 of a post
BatchEntries(post, i, j) ==
    [k \in {EntryId(post, n) : n \in i..(j - 1)} |->
        LET n == CHOOSE m \in i..(j - 1) : EntryId(post, m) = k
        IN  [document |-> post.chunks[n + 1], title |-> post.title,
             post_id |-> post.id]]

\* the mutant keeps the entry the collection has
Upsert_keep_first(entries, batch) ==
    [k \in DOMAIN batch \cup DOMAIN entries |->
        IF k \in DOMAIN entries THEN entries[k] ELSE batch[k]]

\* collection.upsert: an entry under a known id replaces the old one
Upsert(entries, batch) ==
    [k \in DOMAIN batch \cup DOMAIN entries |->
        IF k \in DOMAIN batch THEN batch[k] ELSE entries[k]]

\* "for i in range(0, len(documents), batch_size)" for one post
RECURSIVE UpsertBatches(_, _, _)
UpsertBatches(entries, post, i) ==
    IF i >= Len(post.chunks) THEN entries
    ELSE LET batch_end == Min(i + batch_size, Len(post.chunks))
         IN  UpsertBatches(Upsert(entries, BatchEntries(post, i, batch_end)),
                           post, batch_end)

\* update_chroma_index over the first n posts of chunked_posts
RECURSIVE IndexPosts(_, _, _)
IndexPosts(entries, chunked_posts, n) ==
    IF n = 0 THEN entries
    ELSE UpsertBatches(IndexPosts(entries, chunked_posts, n - 1),
                       chunked_posts[n], 0)

(***************************************************************************)
(* update_chroma_index call by call: every pass of the batch loop is one   *)
(* collection.upsert, recorded with the post it was made for.              *)
(***************************************************************************)
MaxIndexPosts == 2

\* Chunked posts whose chunks all differ, of ids 1 and 11 and with no
\* chunk, fewer chunks than a batch or one more than a batch; the
\* collection holds nothing before, or an entry under "1_0".
IndexInit ==
    /\ AppInit
    /\ LET ChunkCounts == {0, 2, batch_size + 1}
           IndexDocs ==
               {[id |-> id, title |-> t, chunks |-> [k \in 1..n |-> <<k>>]] :
                   id \in {1, 11}, n \in ChunkCounts, t \in Titles}
           IndexBefore ==
               {<<>>, [k \in {EntryId([id |-> 1], 0)} |->
                         [document |-> <<9>>, title |-> "t1", post_id |-> 1]]}
       IN
       \E ps \in SeqsUpTo(IndexDocs, MaxIndexPosts), before \in IndexBefore :
          fn = [op |-> "index", pc |-> "loop", posts |-> ps, before |-> before,
                p |-> 1, i |-> 0, entries |-> before, calls |-> <<>>]

\* one pass of "for i in range(0, len(documents), batch_size)"
IndexBatch ==
    /\ fn.op = "index" /\ fn.pc = "loop" /\ fn.p <= Len(fn.posts)
    /\ fn.i < Len(fn.posts[fn.p].chunks)
    /\ LET post == fn.posts[fn.p]
           batch_end == Min(fn.i + batch_size, Len(post.chunks))
           batch == BatchEntries(post, fn.i, batch_end)
       IN  fn' = [fn EXCEPT !.entries = Upsert(@, batch), !.i = batch_end,
                            !.calls = Append(@, [p |-> fn.p, batch |-> batch])]
    /\ UNCHANGED appVars

\* "for post in chunked_posts": on to the next post
IndexNextPost ==
    /\ fn.op = "index" /\ fn.pc = "loop" /\ fn.p <= Len(fn.posts)
    /\ fn.i >= Len(fn.posts[fn.p].chunks)
    /\ fn' = [fn EXCEPT !.p = @ + 1, !.i = 0]
    /\ UNCHANGED appVars

IndexFinish ==
    /\ fn.op = "index" /\ fn.pc = "loop" /\ fn.p > Len(fn.posts)
    /\ fn' = [fn EXCEPT !.pc = "done"]
    /\ UNCHANGED appVars

SpecIndex == IndexInit /\ [][IndexBatch \/ IndexNextPost \/ IndexFinish]_vars

\* The collection.upsert calls of update_chroma_index in the order it makes
\* them: for post p the chunks numbered i .. j-1.
RECURSIVE PostCalls(_, _, _)
PostCalls(p, n, i) ==
    IF i >= n THEN <<>>
    ELSE LET batch_end == Min(i + batch_size, n)
         IN  <<[p |-> p, i |-> i, j |-> batch_end]>> \o PostCalls(p, n, batch_end)

\* the upsert calls of "for post in chunked_posts", in order
RECURSIVE UpsertCalls(_)
UpsertCalls(chunked_posts) ==
    LET p == Len(chunked_posts)
    IN  IF p = 0 THEN <<>>
        ELSE UpsertCalls(SubSeq(chunked_posts, 1, p - 1))
             \o PostCalls(p, Len(chunked_posts[p].chunks), 0)

\* the entries after the first c upsert calls
RECURSIVE IndexCalls(_, _, _)
IndexCalls(entries, chunked_posts, c) ==
    IF c = 0 THEN entries
    ELSE LET call == UpsertCalls(chunked_posts)[c]
         IN  Upsert(IndexCalls(entries, chunked_posts, c - 1),
                    BatchEntries(chunked_posts[call.p], call.i, call.j))

\* Where update_chroma_index can raise: after k upsert calls, in the call
\* k+1 or in the embedding of the chunks of the post that call is for.
IndexFailures(chunked_posts) == 0..(Len(UpsertCalls(chunked_posts)) - 1)

(***************************************************************************)
(* What can go wrong in a collaborator during one run of a pipeline: at    *)
(* most one failure, at the named call.                                    *)
(***************************************************************************)
NoFailure == [at |-> "none", k |-> 0]

FailAt(call) == [at |-> call, k |-> 0]

(***************************************************************************)
(* routes.register_user, lines 59-83: the content initialisation of a new  *)
(* user.  Gives what it leaves in the stores and whether it raised.        *)
(***************************************************************************)
InitFailures(resps) ==
    LET f == fetch_wordpress_posts(resps)
    IN  {NoFailure}
        \cup IF f.ok /\ f.posts # <<>>
             THEN {FailAt("save_posts"), FailAt("save_chunks"), FailAt("collection")}
                  \cup {[at |-> "index", k |-> k] :
                           k \in IndexFailures(chunk_posts(f.posts))}
             ELSE {}

InitContent(blob, coll, resps, fail) ==
    LET f == fetch_wordpress_posts(resps)
        latest_posts == f.posts
        chunked_posts == chunk_posts(latest_posts)
        blob1 == [blob EXCEPT !.posts = Saved(latest_posts)]
        blob2 == [blob1 EXCEPT !.chunked_posts = Saved(chunked_posts)]
        coll1 == get_or_create_collection(coll)
        R(ok, b, c, w, why) ==
            [ok |-> ok, blob |-> b, coll |-> c, writes |-> w, why |-> why,
             fetch_ok |-> f.ok, fetched |-> Len(latest_posts)]
    IN  IF ~f.ok THEN R(FALSE, blob, coll, {}, "RetryError")
        ELSE IF latest_posts = <<>> THEN R(FALSE, blob, coll, {}, "No posts were fetched")
        ELSE IF fail.at = "save_posts" THEN R(FALSE, blob, coll, {}, fail.at)
        ELSE IF fail.at = "save_chunks" THEN R(FALSE, blob1, coll, {"posts"}, fail.at)
        ELSE IF fail.at = "collection"
        THEN R(FALSE, blob2, coll, {"posts", "chunked_posts"}, fail.at)
        ELSE IF fail.at = "index"
        THEN R(FALSE, blob2,
               [coll1 EXCEPT !.entries = IndexCalls(@, chunked_posts, fail.k)],
               {"posts", "chunked_posts", "index"}, fail.at)
        ELSE R(TRUE, blob2,
               [coll1 EXCEPT !.entries = IndexPosts(@, chunked_posts, Len(chunked_posts))],
               {"posts", "chunked_posts", "index"}, "")

(***************************************************************************)
(* routes.update_content.background_update: one sync of a user.  The task  *)
(* runs without giving up the event loop until update_chroma_index sleeps  *)
(* after an upsert (helpers.py line 242); background_update gives what the *)
(* task has done when it enters update_chroma_index or ends before that.   *)
(***************************************************************************)
SyncFailures(blob, resps) ==
    LET f == fetch_wordpress_posts(resps)
        new == IF blob.posts.present THEN new_posts(f.posts, blob.posts.data) ELSE <<>>
    IN  {NoFailure, FailAt("check")}
        \cup (IF blob.posts.present /\ f.ok /\ f.posts # <<>>
              THEN {FailAt("load_posts")}
              ELSE {})
        \cup (IF new # <<>>
              THEN {FailAt("save_posts"), FailAt("load_chunks"), FailAt("save_chunks"),
                    FailAt("collection")}
                   \cup {[at |-> "index", k |-> k] : k \in IndexFailures(chunk_posts(new))}
              ELSE {})

\* lines 280-281, "except Exception as e: logger.error(...)": the task logs
\* what was raised and returns (the mutant lets it out of the task)
OnTaskException_raise == [outcome |-> "error", raised |-> TRUE]

OnTaskException == [outcome |-> "error", raised |-> FALSE]

background_update(blob, coll, resps, fail) ==
    LET f == fetch_wordpress_posts(resps)
        latest_posts == f.posts
        existing_posts == blob.posts.data
        new == new_posts(latest_posts, existing_posts)
        all_posts == existing_posts \o new
        new_chunked_posts == chunk_posts(new)
        existing_chunks == blob.chunked_posts.data
        all_chunks == existing_chunks \o new_chunked_posts
        blob1 == [blob EXCEPT !.posts = Saved(all_posts)]
        blob2 == [blob1 EXCEPT !.chunked_posts = Saved(all_chunks)]
        coll1 == get_or_create_collection(coll)
        fetched == fail.at # "check" /\ blob.posts.present
        R(outcome, b, c, w, loaded, n) ==
            [outcome |-> outcome, blob |-> b, coll |-> c, writes |-> w,
             raised |-> outcome = OnTaskException.outcome /\ OnTaskException.raised,
             had_posts |-> blob.posts.present,
             fetch_ok |-> fetched /\ f.ok,
             fetched |-> IF fetched /\ f.ok THEN Len(latest_posts) ELSE 0,
             latest |-> IF loaded THEN latest_posts ELSE <<>>,
             existing |-> IF loaded THEN existing_posts ELSE <<>>,
             loaded |-> loaded, new |-> n,
             posts |-> IF outcome = "indexing" THEN new_chunked_posts ELSE <<>>]
    IN  IF fail.at = "check" THEN R("error", blob, coll, {}, FALSE, 0)
        ELSE IF ~blob.posts.present THEN R("no_data", blob, coll, {}, FALSE, 0)
        ELSE IF ~f.ok THEN R("error", blob, coll, {}, FALSE, 0)
        ELSE IF latest_posts = <<>> THEN R("no_posts", blob, coll, {}, FALSE, 0)
        ELSE IF fail.at = "load_posts" THEN R("error", blob, coll, {}, FALSE, 0)
        ELSE IF new = <<>> THEN R("no_new", blob, coll, {}, TRUE, 0)
        ELSE IF fail.at = "save_posts" THEN R("error", blob, coll, {}, TRUE, Len(new))
        \* load_data gives None for a missing blob, and None + list raises
        ELSE IF fail.at = "load_chunks" \/ ~blob.chunked_posts.present
        THEN R("error", blob1, coll, {"posts"}, TRUE, Len(new))
        ELSE IF fail.at = "save_chunks"
        THEN R("error", blob1, coll, {"posts"}, TRUE, Len(new))
        ELSE IF fail.at = "collection"
        THEN R("error", blob2, coll, {"posts", "chunked_posts"}, TRUE, Len(new))
        ELSE R("indexing", blob2, coll1, {"posts", "chunked_posts", "index"},
               TRUE, Len(new))

(***************************************************************************)
(* Relational store (UserService).  The store answers every statement; a   *)
(* handler that awaits an answer gives up the event loop until it has it.  *)
(***************************************************************************)
\* Python binds a call's keyword arguments to the parameters of the callee
\* and raises TypeError for a keyword that names none of them.
CallBinds(keywords, parameters) == keywords \subseteq parameters

\* models/database.py lines 15-20: the columns of User, which are the
\* keywords its constructor takes
UserColumns == {"id", "name", "email", "wp_posts_url", "created_at", "updated_at"}

\* user_service.py lines 24-29: the keywords create_user calls User with
UserKeywords == {"name", "email", "wp_posts_url", "claude_api_key"}

\* db.add and db.commit of a row
add_user(us, uid, email, url) ==
    [u \in DOMAIN us \cup {uid} |->
        IF u = uid THEN [email |-> email, url |-> url] ELSE us[u]]

\* UserService.create_user, after the e-mail check: User(...) raises
\* TypeError for the keyword claude_api_key, the method rolls back and
\* re-raises, and nothing is stored (the mutant stores the row all the same)
create_user_stored(us, uid, email, url) ==
    IF CallBinds(UserKeywords, UserColumns)
    THEN [raised |-> FALSE, users |-> add_user(us, uid, email, url)]
    ELSE [raised |-> TRUE, users |-> add_user(us, uid, email, url)]

create_user(us, uid, email, url) ==
    IF CallBinds(UserKeywords, UserColumns)
    THEN [raised |-> FALSE, users |-> add_user(us, uid, email, url)]
    ELSE [raised |-> TRUE, users |-> us]

\* UserService.delete_user, the commit: the row goes if it is there
delete_user(us, uid) == [u \in DOMAIN us \ {uid} |-> us[u]]

\* UserService.update_user: UPDATE ... WHERE id = uid changes the row if
\* it is there
update_user(us, uid, url) ==
    [u \in DOMAIN us |-> IF u = uid THEN [us[u] EXCEPT !.url = url] ELSE us[u]]

EmailTaken(email) == \E u \in DOMAIN users : users[u].email = email

(***************************************************************************)
(* Feeds the handlers are run against.                                     *)
(***************************************************************************)
PostA1 == [id |-> 1, modified |-> 1, title |-> "t1", content |-> Readable(<<5>>)]

PostA2 == [id |-> 1, modified |-> 2, title |-> "t1", content |-> Readable(<<5, 7>>)]

PostB1 == [id |-> 2, modified |-> 1, title |-> "t2", content |-> Readable(<<7>>)]

\* a post whose cleaned text is empty: it has no sentence and no chunk
PostE == [id |-> 3, modified |-> 1, title |-> "t2", content |-> Readable(<<>>)]

PostU == [id |-> 4, modified |-> 1, title |-> "t2", content |-> Unreadable]

Ok(posts) == [kind |-> "ok", posts |-> posts]

Err(kind) == [kind |-> kind]

SyncFeeds ==
    { <<>>,
      <<Ok(<<PostA1>>), Ok(<<PostB1>>)>>,
      <<Ok(<<PostA2>>), Ok(<<PostU>>)>>,
      <<Ok(<<PostA2>>), Ok(<<PostB1>>)>>,
      <<Err("neterr")>> }

(***************************************************************************)
(* Requests in progress.  A handler runs without giving up the event loop  *)
(* from one answer of the relational store to its next statement; the      *)
(* object store, the vector store, the feed and the generation service are *)
(* called through blocking clients.  A step of a handler is the arrival of *)
(* an answer (what the store holds is read, or changed, at that moment) or *)
(* the resumption of the handler with the answer it was given.             *)
(***************************************************************************)
MaxHandlers == 2

Handler(op, pc, token, body, email, url, found, read_url) ==
    [op |-> op, pc |-> pc, token |-> token, body |-> body, email |-> email,
     url |-> url, found |-> found, read_url |-> read_url]

(***************************************************************************)
(* routes.register_user                                                    *)
(***************************************************************************)
\* the answer to get_user_by_email (user_service.py line 19)
RegisterBegin ==
    /\ BagCardinality(handlers) < MaxHandlers
    /\ \E email \in {"e1"}, url \in {"w1"} :
          handlers' = handlers (+)
             SetToBag({Handler("register", "looked", 0, 0, email, url,
                               EmailTaken(email), "")})
    /\ last' = Idle
    /\ UNCHANGED <<users, nextUid, tokens, blobs, collections, conversations, authors,
                   queries, tasks, fn>>

\* A resumption of the handler.  With the answer of the lookup create_user
\* goes on: it raises ValueError for an address that is taken and
\* TypeError at User(...) for one that is free, and its except awaits the
\* rollback (user_service.py line 38).  After the rollback the exception
\* goes on to the handler, which answers 400 for the one and 500 for the
\* other (routes.py lines 103-106).
RegisterRun(feeds) ==
    /\ \E h \in BagToSet(handlers) :
          /\ h.op = "register"
          /\ IF h.pc = "rollback"
             THEN /\ handlers' = handlers (-) SetToBag({h})
                  /\ last' = [op |-> "register",
                              status |-> IF h.found THEN 400 ELSE 500, user |-> 0,
                              why |-> IF h.found THEN "Email already registered"
                                      ELSE "TypeError",
                              fetch_ok |-> FALSE, fetched |-> 0, writes |-> {}]
                  /\ UNCHANGED <<users, nextUid, tokens, blobs, collections>>
             ELSE IF h.found
             THEN /\ handlers' = (handlers (-) SetToBag({h}))
                                (+) SetToBag({[h EXCEPT !.pc = "rollback"]})
                  /\ last' = Idle
                  /\ UNCHANGED <<users, nextUid, tokens, blobs, collections>>
             ELSE LET uid == nextUid
                      created == create_user(users, uid, h.email, h.url)
                  IN  IF created.raised
                      THEN /\ handlers' = (handlers (-) SetToBag({h}))
                                         (+) SetToBag({[h EXCEPT !.pc = "rollback"]})
                           /\ last' = Idle
                           /\ users' = created.users
                           /\ UNCHANGED <<nextUid, tokens, blobs, collections>>
                      ELSE \E resps \in feeds :
                           \E fail \in InitFailures(resps) :
                           LET r == InitContent(blobs[uid], collections[uid], resps, fail)
                           IN  /\ handlers' = handlers (-) SetToBag({h})
                               /\ nextUid' = uid + 1
                               /\ users' = IF r.ok THEN created.users
                                           ELSE delete_user(created.users, uid)
                               /\ tokens' = IF r.ok THEN tokens \cup {uid} ELSE tokens
                               /\ blobs' = [blobs EXCEPT ![uid] = r.blob]
                               /\ collections' = [collections EXCEPT ![uid] = r.coll]
                               /\ last' = [op |-> "register",
                                           status |-> IF r.ok THEN 200 ELSE 500,
                                           user |-> uid, why |-> r.why,
                                           fetch_ok |-> r.fetch_ok,
                                           fetched |-> r.fetched,
                                           writes |-> r.writes]
    /\ UNCHANGED <<conversations, authors, queries, tasks, fn>>

(***************************************************************************)
(* routes.update_content: the handler, which adds the background task, and *)
(* the task.  A rejection raised inside the handler's try is caught by its *)
(* "except Exception" and answered as a 500.  The task's feed address      *)
(* selects the feed; which answers that feed gives is the environment's    *)
(* choice when the task runs.                                              *)
(***************************************************************************)
MaxTasks == 1

\* lines 289-292: the body of the handler's answer
UpdateInitiated == "Content update initiated in background"

\* background_tasks.add_task(background_update, user_id, url); run is the
\* record of the task's run.  A task that is indexing holds the collection
\* object get_or_create_collection gave it, which names the collection by
\* the id the store gave it at its creation: stale says that this
\* collection has been deleted since (one made later under the same name
\* is another collection).
Task(u) ==
    [user |-> u, pc |-> "added", posts |-> <<>>, done |-> 0, stale |-> FALSE,
     run |-> [op |-> "sync", user |-> u, outcome |-> "none", raised |-> FALSE,
              had_posts |-> FALSE, fetch_ok |-> FALSE, fetched |-> 0,
              loaded |-> FALSE, latest |-> <<>>, existing |-> <<>>, new |-> 0,
              writes |-> {}]]

UpdateAnswer(h, raised, status, message) ==
    [op |-> "update", raised |-> raised, status |-> status, user |-> h.token,
     body |-> h.body, known |-> h.found, message |-> message]

\* the answer to get_user_by_id (routes.py line 223)
UpdateBegin ==
    /\ BagCardinality(handlers) < MaxHandlers
    /\ LET updates == {h \in BagToSet(handlers) : h.op = "update"}
       IN  BagCardinality(tasks)
           + BagCardinality([h \in updates |-> handlers[h]]) < MaxTasks
    /\ \E t \in tokens, body \in UserIds, url \in {"w1", "w2"} :
          handlers' = handlers (+)
             SetToBag({Handler("update", "looked", t, body, "", url, t \in DOMAIN users,
                      IF t \in DOMAIN users THEN users[t].url ELSE "")})
    /\ last' = Idle
    /\ UNCHANGED <<users, nextUid, tokens, blobs, collections, conversations, authors,
                   queries, tasks, fn>>

\* A resumption of the handler.  With the user it was given it makes its
\* checks and then either calls update_user, which sends its statement
\* (user_service.py line 75), or adds the task and answers.  With the
\* answer to the statement update_user commits (line 76): the store holds
\* the new address from then on.
UpdateRun ==
    /\ \E h \in BagToSet(handlers) :
          /\ h.op = "update" /\ h.pc \in {"looked", "executing"}
          /\ IF h.pc = "executing"
             THEN /\ users' = update_user(users, h.token, h.url)
                  /\ handlers' = (handlers (-) SetToBag({h}))
                                (+) SetToBag({[h EXCEPT !.pc = "updated"]})
                  /\ last' = Idle
                  /\ UNCHANGED tasks
             ELSE IF ~h.found
             THEN /\ last' = UpdateAnswer(h, 404, 500, "User not found")
                  /\ handlers' = handlers (-) SetToBag({h})
                  /\ UNCHANGED <<users, tasks>>
             ELSE IF h.body # h.token
             THEN /\ last' = UpdateAnswer(h, 403, 500, "User ID mismatch")
                  /\ handlers' = handlers (-) SetToBag({h})
                  /\ UNCHANGED <<users, tasks>>
             ELSE IF h.url # h.read_url
             THEN /\ handlers' = (handlers (-) SetToBag({h}))
                                (+) SetToBag({[h EXCEPT !.pc = "executing"]})
                  /\ last' = Idle
                  /\ UNCHANGED <<users, tasks>>
             ELSE /\ tasks' = tasks (+) SetToBag({Task(h.token)})
                  /\ handlers' = handlers (-) SetToBag({h})
                  /\ last' = UpdateAnswer(h, 0, 200, UpdateInitiated)
                  /\ UNCHANGED users
    /\ UNCHANGED <<nextUid, tokens, blobs, collections, conversations, authors, queries, fn>>

\* the handler goes on after update_user: add_task and the answer
UpdateFinish ==
    /\ \E h \in BagToSet(handlers) :
          /\ h.op = "update" /\ h.pc = "updated"
          /\ tasks' = tasks (+) SetToBag({Task(h.token)})
          /\ handlers' = handlers (-) SetToBag({h})
          /\ last' = UpdateAnswer(h, 0, 200, UpdateInitiated)
    /\ UNCHANGED <<users, nextUid, tokens, blobs, collections, conversations, authors,
                   queries, fn>>

\* The record of the run of a task of user u.
Report(r, u) ==
    [op |-> "sync", user |-> u, outcome |-> r.outcome, raised |-> r.raised,
     had_posts |-> r.had_posts, fetch_ok |-> r.fetch_ok, fetched |-> r.fetched,
     loaded |-> r.loaded, latest |-> r.latest, existing |-> r.existing,
     new |-> r.new, writes |-> r.writes]

\* What a task reports when it ends.
Ended(run, outcome) ==
    [run EXCEPT !.outcome = outcome,
                !.raised = outcome = OnTaskException.outcome /\ OnTaskException.raised]

\* The task runs from its start to its first sleep, or to its end when it
\* makes no upsert call.
TaskStart(feeds) ==
    /\ \E task \in BagToSet(tasks), resps \in feeds :
          /\ task.pc = "added"
          /\ \E fail \in SyncFailures(blobs[task.user], resps) :
                \* of the upsert calls the first is made in this step
                /\ fail.at = "index" => fail.k = 0
                /\ LET u == task.user
                       r == background_update(blobs[u], collections[u], resps, fail)
                       calls == UpsertCalls(r.posts)
                       run == Report(r, u)
                   IN  /\ blobs' = [blobs EXCEPT ![u] = r.blob]
                       /\ IF r.outcome # "indexing"
                          THEN /\ collections' = [collections EXCEPT ![u] = r.coll]
                               /\ tasks' = tasks (-) SetToBag({task})
                               /\ last' = Ended(run, r.outcome)
                          ELSE IF calls = <<>>
                          THEN /\ collections' = [collections EXCEPT ![u] = r.coll]
                               /\ tasks' = tasks (-) SetToBag({task})
                               /\ last' = Ended(run, "updated")
                          ELSE IF fail.at = "index" /\ fail.k = 0
                          THEN /\ collections' = [collections EXCEPT ![u] = r.coll]
                               /\ tasks' = tasks (-) SetToBag({task})
                               /\ last' = Ended(run, OnTaskException.outcome)
                          ELSE /\ collections' =
                                     [collections EXCEPT
                                         ![u] = [r.coll EXCEPT
                                                    !.entries = IndexCalls(@, r.posts, 1)]]
                               /\ tasks' = (tasks (-) SetToBag({task}))
                                           (+) SetToBag({[task EXCEPT !.pc = "indexing",
                                                               !.posts = r.posts,
                                                               !.done = 1,
                                                               !.run = run]})
                               /\ last' = Idle
    /\ UNCHANGED <<users, nextUid, tokens, conversations, authors, queries, handlers, fn>>

\* The task goes on after a sleep: the next upsert call, which raises when
\* the collection the task holds has been deleted meanwhile, or the end of
\* the task.
TaskStep ==
    /\ \E task \in BagToSet(tasks) :
          /\ task.pc = "indexing"
          /\ LET u == task.user
                 calls == UpsertCalls(task.posts)
             IN  IF task.done = Len(calls)
                 THEN /\ tasks' = tasks (-) SetToBag({task})
                      /\ last' = Ended(task.run, "updated")
                      /\ UNCHANGED collections
                 ELSE \E raises \in BOOLEAN :
                      IF raises \/ task.stale
                      THEN /\ tasks' = tasks (-) SetToBag({task})
                           /\ last' = Ended(task.run, OnTaskException.outcome)
                           /\ UNCHANGED collections
                      ELSE LET call == calls[task.done + 1]
                           IN  /\ collections' =
                                     [collections EXCEPT
                                         ![u].entries =
                                             Upsert(@, BatchEntries(task.posts[call.p],
                                                                    call.i, call.j))]
                               /\ tasks' =
                                     (tasks (-) SetToBag({task}))
                                     (+) SetToBag({[task EXCEPT !.done = @ + 1]})
                               /\ last' = Idle
    /\ UNCHANGED <<users, nextUid, tokens, blobs, conversations, authors, queries,
                   handlers, fn>>

(***************************************************************************)
(* routes.delete_user_data                                                 *)
(***************************************************************************)
DeleteFailures == {"none", "s3", "chroma"}

\* the check of the path against the token, then the answer to the lookup
\* of delete_user (user_service.py line 85); at most limit requests are in
\* progress
DeleteBegin(limit) ==
    /\ \E path \in UserIds, t \in tokens :
          IF path # t
          THEN /\ last' = [op |-> "delete", raised |-> 403, status |-> 403]
               /\ UNCHANGED handlers
          ELSE /\ BagCardinality(handlers) < limit
               /\ handlers' = handlers (+)
                     SetToBag({Handler("delete", "looked", t, path, "", "",
                                       t \in DOMAIN users, "")})
               /\ last' = Idle
    /\ UNCHANGED <<users, nextUid, tokens, blobs, collections, conversations, authors,
                   queries, tasks, fn>>

\* A resumption of delete_user.  With the answer of the lookup: without a
\* user it returns False and the handler answers 404, with one it awaits
\* the session's delete (user_service.py line 91), which changes nothing
\* in the store.  After that it commits (line 92): the row is gone from
\* then on.
DeleteCommit ==
    /\ \E h \in BagToSet(handlers) :
          /\ h.op = "delete" /\ h.pc \in {"looked", "deleting"}
          /\ IF h.pc = "deleting"
             THEN /\ users' = delete_user(users, h.token)
                  /\ handlers' = (handlers (-) SetToBag({h}))
                                (+) SetToBag({[h EXCEPT !.pc = "committed"]})
                  /\ last' = Idle
             ELSE IF ~h.found
             THEN /\ last' = [op |-> "delete", raised |-> 404, status |-> 404]
                  /\ handlers' = handlers (-) SetToBag({h})
                  /\ UNCHANGED users
             ELSE /\ handlers' = (handlers (-) SetToBag({h}))
                                (+) SetToBag({[h EXCEPT !.pc = "deleting"]})
                  /\ last' = Idle
                  /\ UNCHANGED users
    /\ UNCHANGED <<nextUid, tokens, blobs, collections, conversations, authors,
                   queries, tasks, fn>>

\* the handler goes on after the commit: the objects, then the collection,
\* which a task that is indexing into it then holds in vain
DeleteFinish(failures) ==
    /\ \E h \in BagToSet(handlers), fail \in failures :
          /\ h.op = "delete" /\ h.pc = "committed"
          /\ LET t == h.token
                 left(task) == IF task.user = t /\ task.pc = "indexing"
                               THEN [task EXCEPT !.stale = TRUE] ELSE task
             IN  /\ tasks' = IF fail = "none" /\ collections[t].exists
                             THEN BagOfAll(left, tasks) ELSE tasks
                 /\ blobs' = IF fail = "s3" THEN blobs
                             ELSE [blobs EXCEPT ![t] = [posts |-> NoBlob,
                                                        chunked_posts |-> NoBlob]]
                 /\ collections' = IF fail = "none"
                                   THEN [collections EXCEPT
                                            ![t] = delete_collection(@).coll]
                                   ELSE collections
                 /\ last' = [op |-> "delete", raised |-> 0,
                             status |-> IF fail = "none"
                                           /\ ~delete_collection(collections[t]).raised
                                        THEN 200 ELSE 500]
          /\ handlers' = handlers (-) SetToBag({h})
    /\ UNCHANGED <<users, nextUid, tokens, conversations, authors, queries, fn>>

(***************************************************************************)
(* Query path: helpers.similarity_search, get_context, augment_query and   *)
(* ClaudeService.generate_response.                                        *)
(***************************************************************************)
top_k == 5

max_chunks == 3

Orderings(S) ==
    {f \in [1..Cardinality(S) -> S] : \A i, j \in 1..Cardinality(S) : f[i] = f[j] => i = j}

\* collection.query: the n_results nearest entries, nearest first.  Which
\* entries are nearest is the embedder's matter: any order can come back.
\* A hit's distance is modelled by its rank.
\* The result is the store's dict: under each included key a list with one
\* list per query embedding.
ResultKeys == {"documents", "metadatas", "distances"}

\* a metadata of a hit: a dict (with the keys it has) or not a mapping
Metadata(title, post_id) ==
    [mapping |-> TRUE, keys |-> {"title", "post_id"}, title |-> title, post_id |-> post_id]

\* a distance of a hit: a number or not
Distance(d) == [number |-> TRUE, value |-> d]

QueryResult(documents, metadatas, distances) ==
    [none |-> FALSE, keys |-> ResultKeys, documents |-> <<documents>>,
     metadatas |-> <<metadatas>>, distances |-> <<distances>>]

SearchResults(coll) ==
    {LET n == Min(top_k, Len(order))
     IN  QueryResult([i \in 1..n |-> coll.entries[order[i]].document],
                     [i \in 1..n |-> Metadata(coll.entries[order[i]].title,
                                              coll.entries[order[i]].post_id)],
                     [i \in 1..n |-> Distance(i - 1)]) :
        order \in Orderings(DOMAIN coll.entries)}

\* the hits of a result the handler logs
Hits(results) == Len(results.documents[1])

\* 1 / (1 + distance), as the fraction <<numerator, denominator>>
Relevance(distance) == <<1, 1 + distance>>

\* "if results and 'documents' in results and results['documents']"
HasDocuments(results) ==
    /\ ~results.none /\ results.keys # {}
    /\ "documents" \in results.keys
    /\ results.documents # <<>>

\* results.get(key, [[]]): the list under the key, [[]] without the key
GetLists(results, key) ==
    IF key \in results.keys
    THEN (IF key = "metadatas" THEN results.metadatas ELSE results.distances)
    ELSE <<<<>>>>

\* the passes of "for i, (doc, metadata, distance) in enumerate(zip(...))"
\* that reach the append: zip ends with its shortest list, the loop at
\* max_chunks
Passes(results) ==
    Min(max_chunks,
        Min(Len(results.documents[1]),
            Min(Len(GetLists(results, "metadatas")[1]),
                Len(GetLists(results, "distances")[1]))))

\* what raises inside the try block: [0] of an empty list, .get of a
\* metadata that is no mapping, 1 + distance of a distance that is no number
ContextRaises(results) ==
    \/ GetLists(results, "metadatas") = <<>>
    \/ GetLists(results, "distances") = <<>>
    \/ \E i \in 1..Passes(results) :
          \/ ~GetLists(results, "metadatas")[1][i].mapping
          \/ ~GetLists(results, "distances")[1][i].number

\* metadata.get('title', '')
GetTitle(metadata) == IF "title" \in metadata.keys THEN metadata.title ELSE ""

\* helpers.get_context: the first max_chunks hits; [] when anything raises
get_context(results) ==
    IF ~HasDocuments(results) THEN <<>>
    ELSE IF ContextRaises(results) THEN <<>>
    ELSE [i \in 1..Passes(results) |->
             [content |-> results.documents[1][i],
              title |-> GetTitle(GetLists(results, "metadatas")[1][i]),
              relevance_score |->
                  Relevance(GetLists(results, "distances")[1][i].value)]]

(***************************************************************************)
(* get_context on its own, for results of any shape.                       *)
(***************************************************************************)
MaxHits == 4

\* hit i of a well-formed result
HitDocument(i) == <<i>>

HitMetadata(i) == Metadata("t1", i)

\* lists of n items, all well-formed or with one item replaced: by a
\* metadata dict without a title or a metadata that is no mapping (None),
\* by a distance that is no number (None)
\* The results are None, or a dict in which the list under a key is [] or
\* [list].
ContextInit ==
    /\ AppInit
    /\ LET MetadataNoTitle ==
               [mapping |-> TRUE, keys |-> {"post_id"}, title |-> "", post_id |-> 0]
           MetadataNone ==
               [mapping |-> FALSE, keys |-> {}, title |-> "", post_id |-> 0]
           MetadataLists(n) ==
               {[i \in 1..n |-> HitMetadata(i)]}
               \cup {[i \in 1..n |-> IF i = bad THEN m ELSE HitMetadata(i)] :
                        bad \in 1..n, m \in {MetadataNoTitle, MetadataNone}}
           DistanceNone == [number |-> FALSE, value |-> 0]
           DistanceLists(n) ==
               {[i \in 1..n |-> Distance(i - 1)]}
               \cup {[i \in 1..n |-> IF i = bad THEN DistanceNone
                                      ELSE Distance(i - 1)] : bad \in 1..n}
           OuterLists(lists) == {<<>>} \cup {<<l>> : l \in lists}
           RawResults ==
               {[none |-> TRUE, keys |-> {}, documents |-> <<>>,
                 metadatas |-> <<>>, distances |-> <<>>]}
               \cup [none : {FALSE},
                     keys : SUBSET ResultKeys,
                     documents : OuterLists({[i \in 1..n |-> HitDocument(i)] :
                                                n \in 0..MaxHits}),
                     metadatas : OuterLists(UNION {MetadataLists(n) :
                                                      n \in 0..MaxHits}),
                     distances : OuterLists(UNION {DistanceLists(n) :
                                                      n \in 0..MaxHits})]
       IN
       \E results \in RawResults : fn = [op |-> "get_context", pc |-> "call",
                                         results |-> results]

\* the try block returns context, the except block []: nothing escapes
ContextApply ==
    /\ fn.op = "get_context" /\ fn.pc = "call"
    /\ fn' = [op |-> "get_context", pc |-> "done", results |-> fn.results,
              out |-> get_context(fn.results), raised |-> FALSE]
    /\ UNCHANGED appVars

SpecContext == ContextInit /\ [][ContextApply]_vars

\* routes.py line 169: what the handler puts in place of an empty context,
\* "No specific content found for this query." (one sentence, 41 characters);
\* it has no relevance_score, and ctx.get('relevance_score', 0) gives 0
NoContentItem == [content |-> <<41>>, title |-> "", relevance_score |-> <<0, 1>>]

\* helpers.augment_query: "No specific context found." for an empty context,
\* else the rendering of every item; then the query
augment_query(query, context) ==
    [formatted_context |->
        IF context = <<>> THEN [sentinel |-> TRUE, items |-> <<>>]
        ELSE [sentinel |-> FALSE, items |-> context],
     query |-> query]

\* the parameters of augment_query and the keywords of its call at
\* routes.py lines 171-175
AugmentQueryParameters == {"query", "context"}

AugmentQueryKeywords == {"query", "context", "conversation_history"}

history_turns == 4

\* ClaudeService.generate_response, lines 36-60: the messages sent
Messages(query, context, chat_history) ==
    LastN(chat_history, history_turns)
    \o <<[role |-> "user",
          content |-> [formatted_context |->
                          [i \in 1..Len(context) |->
                              [title |-> context[i].title,
                               content |-> context[i].content]],
                       query |-> query]]>>

\* The text the generation service receives, piece by piece in reading
\* order: every message of the history, then the current message, which is
\* "Context from the website: {formatted_context} Current query: {query}"
\* with, for query, the text augment_query made:
\* "Context from website: {formatted_context} Current query: {query}".
GenerationParts(messages) ==
    LET n == Len(messages)
        current == messages[n].content
    IN  [i \in 1..(n - 1) |->
            [part |-> "turn", role |-> messages[i].role, text |-> messages[i].content]]
        \o <<[part |-> "context", items |-> current.formatted_context],
              [part |-> "augmented_context",
               rendering |-> current.query.formatted_context],
              [part |-> "query", text |-> current.query.query]>>

(***************************************************************************)
(* routes.process_query.  The handler suspends at the user lookup; from    *)
(* there to its end it runs without giving up the event loop (the object   *)
(* store, the vector store and the generation service are called through   *)
(* blocking clients).                                                      *)
(***************************************************************************)
\* the cap on live conversations: 1000 in the code (routes.py line 199),
\* scaled down here so that the table can be filled
MaxConversations == 2

MaxInFlight == 1

\* the model stops sending queries for a conversation of this many turns
MaxHistory == 4

\* conversation ids a client sends: "10", "9"
ClientIds == {<<49, 48>>, <<57>>}

\* str(uuid.uuid4()), shortened to two of its characters: "3f", "a1"
UuidPool == {<<51, 102>>, <<97, 49>>}

QueryTexts == {"q1"}

Replies == {"r1"}

QueryFailures == {"none", "check", "load", "collection", "embed", "search", "claude"}

\* A request is [token, user_id, conversation_id, query] with the answer to
\* get_user_by_id (line 118), which the handler waits for; concurrent notes
\* that another request naming the same conversation id was in progress
\* at the same time.  At most limit requests are in progress, naming ids;
\* queries is a bag, since two requests in progress can be equal in all of
\* this.
Begin(limit, ids) ==
    /\ BagCardinality(queries) < limit
    /\ \E t \in tokens, body \in UserIds, cid \in ids, q \in QueryTexts :
          /\ cid \in DOMAIN conversations => Len(conversations[cid]) < MaxHistory
          /\ LET together(r) == cid # <<>> /\ r.conversation_id = cid
                 noted(r) == [r EXCEPT !.concurrent = @ \/ together(r)]
             IN  queries' =
                    BagOfAll(noted, queries)
                    (+) SetToBag({[token |-> t, user_id |-> body,
                                   conversation_id |-> cid, query |-> q,
                                   found |-> t \in DOMAIN users,
                                   concurrent |->
                                      \E r \in BagToSet(queries) : together(r)]})
    /\ last' = Idle
    /\ UNCHANGED <<users, nextUid, tokens, blobs, collections, conversations,
                   authors, handlers, tasks, fn>>

QueryBegin == Begin(MaxInFlight, ClientIds \cup {<<>>})

\* "if len(conversations) > 1000: del conversations[min(conversations.keys())]"
EvictedIds(table) ==
    IF Cardinality(DOMAIN table) > MaxConversations
    THEN {MinStr(DOMAIN table)}
    ELSE {}

Without(table, ids) == [c \in DOMAIN table \ ids |-> table[c]]

\* lines 128-129
WithConversation(table, cid) ==
    IF cid \in DOMAIN table THEN table
    ELSE [c \in DOMAIN table \cup {cid} |-> IF c = cid THEN <<>> ELSE table[c]]

\* lines 189-196
WithTurns(table, cid, query, response) ==
    [table EXCEPT ![cid] = @ \o <<[role |-> "user", content |-> query],
                                  [role |-> "assistant", content |-> response]>>]

\* who made an entry and who is behind its turns
WithAuthor(table, cid, u) ==
    IF cid \in DOMAIN table THEN table
    ELSE [c \in DOMAIN table \cup {cid} |->
             IF c = cid THEN [creator |-> u, turns |-> <<>>] ELSE table[c]]

WithTurnsBy(table, cid, u) == [table EXCEPT ![cid].turns = @ \o <<u, u>>]

\* What a query that ended at the given stage answers; the status raised
\* inside the try is answered as a 500 by "except Exception".
QueryFailed(r, stage, raised, cid, hits) ==
    [op |-> "query", stage |-> stage, raised |-> raised, status |-> 500,
     query |-> r.query, user |-> r.token, concurrent |-> r.concurrent,
     creator |-> IF cid \in DOMAIN authors THEN authors[cid].creator ELSE r.token,
     turns_by |-> IF cid \in DOMAIN authors THEN authors[cid].turns ELSE <<>>,
     fresh |-> cid # <<>> /\ cid \notin DOMAIN conversations,
     conversation_id |-> cid, hits |-> hits, history |-> <<>>, evicted |-> {}]

\* the handler goes on with the user it was given, to its answer
QueryRun ==
    \E r \in BagToSet(queries), fail \in QueryFailures :
       /\ queries' = queries (-) SetToBag({r})
       /\ UNCHANGED <<users, nextUid, tokens, blobs, handlers, tasks, fn>>
       /\ IF ~r.found
          THEN /\ last' = QueryFailed(r, "user", 404, <<>>, 0)
               /\ UNCHANGED <<conversations, authors, collections>>
          ELSE IF r.user_id # r.token
          THEN /\ last' = QueryFailed(r, "user_id", 403, <<>>, 0)
               /\ UNCHANGED <<conversations, authors, collections>>
          ELSE \E uuid \in UuidPool :
               /\ r.conversation_id = <<>> => uuid \notin DOMAIN conversations
               /\ r.conversation_id # <<>> => uuid = CHOOSE x \in UuidPool : TRUE
               /\ LET u == r.token
                      conversation_id ==
                          IF r.conversation_id # <<>> THEN r.conversation_id ELSE uuid
                      table == WithConversation(conversations, conversation_id)
                      made == WithAuthor(authors, conversation_id, u)
                      chunked_posts == blobs[u].chunked_posts
                      coll == get_or_create_collection(collections[u])
                  IN  IF fail = "check"
                      THEN /\ last' = QueryFailed(r, "check", 0, conversation_id, 0)
                           /\ conversations' = table
                           /\ authors' = made
                           /\ UNCHANGED collections
                      ELSE IF ~chunked_posts.present
                      THEN /\ last' = QueryFailed(r, "no_content", 400, conversation_id, 0)
                           /\ conversations' = table
                           /\ authors' = made
                           /\ UNCHANGED collections
                      ELSE IF fail = "load"
                      THEN /\ last' = QueryFailed(r, "load", 0, conversation_id, 0)
                           /\ conversations' = table
                           /\ authors' = made
                           /\ UNCHANGED collections
                      ELSE IF chunked_posts.data = <<>>
                      THEN /\ last' = QueryFailed(r, "empty_content", 404, conversation_id, 0)
                           /\ conversations' = table
                           /\ authors' = made
                           /\ UNCHANGED collections
                      ELSE IF fail = "collection"
                      THEN /\ last' = QueryFailed(r, "collection", 0, conversation_id, 0)
                           /\ conversations' = table
                           /\ authors' = made
                           /\ UNCHANGED collections
                      ELSE IF fail \in {"embed", "search"}
                      THEN /\ last' = QueryFailed(r, fail, 0, conversation_id, 0)
                           /\ conversations' = table
                           /\ authors' = made
                           /\ collections' = [collections EXCEPT ![u] = coll]
                      ELSE \E search_results \in SearchResults(coll), response \in Replies :
                           LET found == get_context(search_results)
                               context == IF found = <<>> THEN <<NoContentItem>> ELSE found
                               history == table[conversation_id]
                           IN  /\ collections' = [collections EXCEPT ![u] = coll]
                               /\ IF ~CallBinds(AugmentQueryKeywords, AugmentQueryParameters)
                                  THEN \* TypeError at the call of augment_query
                                       /\ last' = QueryFailed(r, "augment", 0, conversation_id,
                                                              Hits(search_results))
                                       /\ conversations' = table
                                       /\ authors' = made
                                  ELSE IF "claude_api_key" \notin UserColumns
                                  THEN \* AttributeError at user.claude_api_key
                                       /\ last' = QueryFailed(r, "api_key", 0, conversation_id,
                                                              Hits(search_results))
                                       /\ conversations' = table
                                       /\ authors' = made
                                  ELSE IF fail = "claude"
                                  THEN /\ last' = QueryFailed(r, "claude", 0, conversation_id,
                                                              Hits(search_results))
                                       /\ conversations' = table
                                       /\ authors' = made
                                  ELSE LET augmented_query == augment_query(r.query, context)
                                           appended == WithTurns(table, conversation_id,
                                                                 r.query, response)
                                           evicted == EvictedIds(appended)
                                       IN  /\ conversations' = Without(appended, evicted)
                                           /\ authors' =
                                                Without(WithTurnsBy(made, conversation_id, u),
                                                        evicted)
                                           /\ last' =
                                                [op |-> "query", stage |-> "done",
                                                 raised |-> 0, status |-> 200,
                                                 query |-> r.query,
                                                 fresh |-> conversation_id \notin
                                                               DOMAIN conversations,
                                                 conversation_id |-> conversation_id,
                                                 hits |-> Hits(search_results),
                                                 history |-> history,
                                                 user |-> u,
                                                 concurrent |-> r.concurrent,
                                                 creator |-> made[conversation_id].creator,
                                                 turns_by |-> made[conversation_id].turns,
                                                 evicted |-> evicted,
                                                 response |-> response,
                                                 augmented_query |-> augmented_query,
                                                 messages |-> Messages(augmented_query,
                                                                       context, history)]

(***************************************************************************)
(* generate_response on its own, called as process_query calls it (lines   *)
(* 179-185): with the augmented query, the context and the history.        *)
(***************************************************************************)
MaxTurns == 5

GenerateInit ==
    LET TurnPool == {[role |-> "user", content |-> "q0"],
                     [role |-> "assistant", content |-> "r0"],
                     [role |-> "user", content |-> "q1"]}
        GenerateContexts ==
            {<<NoContentItem>>}
            \cup {get_context(QueryResult([i \in 1..n |-> HitDocument(i)],
                                          [i \in 1..n |-> HitMetadata(i)],
                                          [i \in 1..n |-> Distance(i - 1)])) :
                     n \in 1..2}
    IN  /\ AppInit
        /\ \E q \in QueryTexts, context \in GenerateContexts,
              chat_history \in SeqsUpTo(TurnPool, MaxTurns) :
              fn = [op |-> "generate", pc |-> "call", query |-> q,
                    context |-> context, chat_history |-> chat_history]

GenerateApply ==
    /\ fn.op = "generate" /\ fn.pc = "call"
    /\ LET messages == Messages(augment_query(fn.query, fn.context), fn.context,
                                fn.chat_history)
       IN  fn' = [op |-> "generate", pc |-> "done", query |-> fn.query,
                  context |-> fn.context, chat_history |-> fn.chat_history,
                  messages |-> messages, parts |-> GenerationParts(messages)]
    /\ UNCHANGED appVars

SpecGenerate == GenerateInit /\ [][GenerateApply]_vars

(***************************************************************************)
(* The end of process_query on its own (lines 188-206): the two appends,   *)
(* the eviction and the return, from any table the handler can have when   *)
(* the generation service has answered.  The entry of the request's        *)
(* conversation is in the table (lines 128-129); the table can hold any    *)
(* number of entries, as entries are made before the checks and evicted    *)
(* only here.                                                              *)
(***************************************************************************)
Tables ==
    LET TableIds == ClientIds \cup UuidPool
        Histories == {<<>>, <<[role |-> "user", content |-> "q0"],
                             [role |-> "assistant", content |-> "r0"]>>}
    IN  UNION {[ids -> Histories] : ids \in SUBSET TableIds \ {{}}}

AppendInit ==
    /\ AppInit
    /\ \E table \in Tables, q \in QueryTexts, response \in Replies :
          \E conversation_id \in DOMAIN table :
             fn = [op |-> "append", pc |-> "call", table |-> table,
                   conversation_id |-> conversation_id, query |-> q,
                   response |-> response]

AppendApply ==
    /\ fn.op = "append" /\ fn.pc = "call"
    /\ LET appended == WithTurns(fn.table, fn.conversation_id, fn.query, fn.response)
           evicted == EvictedIds(appended)
       IN  fn' = [op |-> "append", pc |-> "done", before |-> fn.table,
                  table |-> Without(appended, evicted), evicted |-> evicted,
                  conversation_id |-> fn.conversation_id, query |-> fn.query,
                  response |-> fn.response]
    /\ UNCHANGED appVars

SpecAppend == AppendInit /\ [][AppendApply]_vars

(***************************************************************************)
(* The vector store service on its own: the methods of ChromaService and   *)
(* update_chroma_index, called in any order, for any user.                 *)
(***************************************************************************)

StoreGetOrCreate ==
    /\ \E u \in UserIds :
          /\ collections' = [collections EXCEPT ![u] = get_or_create_collection(@)]
          /\ last' = [op |-> "get_or_create_collection", user |-> u,
                      existed |-> collections[u].exists, raised |-> FALSE]
    /\ UNCHANGED <<users, nextUid, tokens, blobs, conversations, authors, queries,
                   handlers, tasks, fn>>

\* update_chroma_index on the collection get_or_create_collection gave,
\* up to its first sleep (helpers.py line 242): the first upsert call is
\* made, unless the embedding of the first post's chunks or the call
\* raises, or there is no chunk to index.  At most MaxTasks calls of
\* update_chroma_index are in progress.
StoreIndex ==
    /\ BagCardinality(tasks) < MaxTasks
    /\ \E u \in UserIds, raises \in BOOLEAN,
          posts \in {<<PostA1>>, <<PostA2>>, <<PostE>>, <<PostA2, PostB1>>} :
          LET chunked_posts == chunk_posts(posts)
              coll == get_or_create_collection(collections[u])
              ended(raised) == [op |-> "update_chroma_index", user |-> u,
                                existed |-> collections[u].exists,
                                raised |-> raised]
          IN  IF UpsertCalls(chunked_posts) = <<>>
              THEN /\ collections' = [collections EXCEPT ![u] = coll]
                   /\ last' = ended(FALSE)
                   /\ UNCHANGED tasks
              ELSE IF raises
              THEN /\ collections' = [collections EXCEPT ![u] = coll]
                   /\ last' = ended(TRUE)
                   /\ UNCHANGED tasks
              ELSE /\ collections' =
                         [collections EXCEPT
                             ![u] = [coll EXCEPT
                                        !.entries = IndexCalls(@, chunked_posts, 1)]]
                   /\ tasks' = tasks (+)
                         SetToBag({[Task(u) EXCEPT !.pc = "indexing",
                                                   !.posts = chunked_posts,
                                                   !.done = 1]})
                   /\ last' = Idle
    /\ UNCHANGED <<users, nextUid, tokens, blobs, conversations, authors, queries,
                   handlers, fn>>

\* update_chroma_index goes on after a sleep: the next upsert call, which
\* raises when the collection it was given has been deleted meanwhile, or
\* its return
StoreIndexStep ==
    /\ \E task \in BagToSet(tasks) :
          /\ task.pc = "indexing"
          /\ LET u == task.user
                 calls == UpsertCalls(task.posts)
                 ended(raised) == [op |-> "update_chroma_index", user |-> u,
                                   existed |-> ~task.stale, raised |-> raised]
             IN  IF task.done = Len(calls)
                 THEN /\ tasks' = tasks (-) SetToBag({task})
                      /\ last' = ended(FALSE)
                      /\ UNCHANGED collections
                 ELSE \E raises \in BOOLEAN :
                      IF raises \/ task.stale
                      THEN /\ tasks' = tasks (-) SetToBag({task})
                           /\ last' = ended(TRUE)
                           /\ UNCHANGED collections
                      ELSE LET call == calls[task.done + 1]
                           IN  /\ collections' =
                                     [collections EXCEPT
                                         ![u].entries =
                                             Upsert(@, BatchEntries(task.posts[call.p],
                                                                    call.i, call.j))]
                               /\ tasks' =
                                     (tasks (-) SetToBag({task}))
                                     (+) SetToBag({[task EXCEPT !.done = @ + 1]})
                               /\ last' = Idle
    /\ UNCHANGED <<users, nextUid, tokens, blobs, conversations, authors, queries,
                   handlers, fn>>

\* a call of update_chroma_index in progress on the collection then holds
\* a collection that is no more
StoreDelete ==
    /\ \E u \in UserIds :
          LET d == delete_collection(collections[u])
              left(task) == IF task.user = u /\ task.pc = "indexing"
                            THEN [task EXCEPT !.stale = TRUE] ELSE task
          IN  /\ collections' = [collections EXCEPT ![u] = d.coll]
              /\ tasks' = IF d.raised THEN tasks ELSE BagOfAll(left, tasks)
              /\ last' = [op |-> "delete_collection", user |-> u,
                          existed |-> collections[u].exists, raised |-> d.raised]
    /\ UNCHANGED <<users, nextUid, tokens, blobs, conversations, authors, queries,
                   handlers, fn>>

\* ChromaService.add_documents, with the embeddings given: the documents
\* go into the collection get_or_create_collection gave under the ids
\* "doc_0", "doc_1", ... by collection.add, which leaves an entry the
\* collection has under an id as it is.  A document is a dict with its
\* content and post_id, and a title or none ("doc.get('title', '')").
StoreAddDocuments ==
    /\ \E u \in UserIds,
          documents \in {<<[content |-> <<5>>, title |-> "t1", post_id |-> 1]>>,
                         <<[content |-> <<7>>, post_id |-> 2],
                           [content |-> <<5>>, title |-> "t1", post_id |-> 1]>>} :
          LET coll == get_or_create_collection(collections[u])
              ids == [idx \in 1..Len(documents) |->
                         <<100, 111, 99, 95>> \o Str(idx - 1)]
              metadatas == [idx \in 1..Len(documents) |->
                               [title |-> IF "title" \in DOMAIN documents[idx]
                                          THEN documents[idx].title ELSE "",
                                post_id |-> documents[idx].post_id]]
              batch == [k \in {ids[idx] : idx \in 1..Len(documents)} |->
                          LET idx == CHOOSE i \in 1..Len(documents) : ids[i] = k
                          IN  [document |-> documents[idx].content,
                               title |-> metadatas[idx].title,
                               post_id |-> metadatas[idx].post_id]]
          IN  /\ collections' =
                    [collections EXCEPT
                        ![u] = [coll EXCEPT !.entries =
                                   [k \in DOMAIN batch \cup DOMAIN @ |->
                                       IF k \in DOMAIN @ THEN @[k] ELSE batch[k]]]]
              /\ last' = [op |-> "add_documents", user |-> u,
                          existed |-> collections[u].exists, raised |-> FALSE]
    /\ UNCHANGED <<users, nextUid, tokens, blobs, conversations, authors, queries,
                   handlers, tasks, fn>>

\* ChromaService.query_documents: after get_or_create_collection the call
\* of collection.query names a keyword, include_metadata, that is none of
\* its parameters; the service logs the TypeError and re-raises it
StoreQueryDocuments ==
    /\ \E u \in UserIds :
          /\ collections' = [collections EXCEPT ![u] = get_or_create_collection(@)]
          /\ last' = [op |-> "query_documents", user |-> u,
                      existed |-> collections[u].exists,
                      raised |-> ~CallBinds({"query_texts", "n_results",
                                             "include_metadata"},
                                            {"query_embeddings", "query_texts",
                                             "n_results", "where",
                                             "where_document", "include"})]
    /\ UNCHANGED <<users, nextUid, tokens, blobs, conversations, authors, queries,
                   handlers, tasks, fn>>

StoreInit == AppInit /\ fn = Idle

\* every method of ChromaService that works on a collection, and
\* update_chroma_index
SpecStore ==
    StoreInit /\ [][\/ StoreGetOrCreate
                    \/ StoreIndex
                    \/ StoreIndexStep
                    \/ StoreAddDocuments
                    \/ StoreQueryDocuments
                    \/ StoreDelete]_vars

(***************************************************************************)
(* The application.  The relational store, the bucket and the vector store *)
(* outlive the process, and create_user stores no user: the users at the   *)
(* start are the users of the stores the process is started on, with the   *)
(* content an initialization (lines 59-83) leaves.                         *)
(***************************************************************************)
Registered(resps) ==
    InitContent([posts |-> NoBlob, chunked_posts |-> NoBlob], NoCollection,
                resps, NoFailure)

\* no user, or user 1 against a feed of one post or of two
ContentInit ==
    \E resps \in { <<>>,
                   <<Ok(<<PostA1>>)>>,
                   <<Ok(<<PostA1>>), Ok(<<PostB1>>)>> } :
       LET has == resps # <<>>
       IN  /\ users = IF has THEN add_user(<<>>, 1, "e1", "w1") ELSE <<>>
           /\ nextUid = IF has THEN 2 ELSE 1
           /\ tokens = IF has THEN {1} ELSE {}
           /\ blobs = [u \in UserIds |->
                         IF has /\ u = 1 THEN Registered(resps).blob
                         ELSE [posts |-> NoBlob, chunked_posts |-> NoBlob]]
           /\ collections = [u \in UserIds |->
                               IF has /\ u = 1 THEN Registered(resps).coll
                               ELSE NoCollection]
           /\ conversations = <<>>
           /\ authors = <<>>
           /\ queries = EmptyBag
           /\ handlers = EmptyBag
           /\ tasks = EmptyBag
           /\ last = Idle
           /\ fn = Idle

\* users 1 and 2: user 1 against a feed of one post with text, of one post
\* without text or of one unreadable post, user 2 against a feed of one
\* post with text
QueryInit ==
    \E resps \in { <<Ok(<<PostA1>>)>>, <<Ok(<<PostE>>)>>, <<Ok(<<PostU>>)>> } :
       /\ users = add_user(add_user(<<>>, 1, "e1", "w1"), 2, "e2", "w2")
       /\ nextUid = 3
       /\ tokens = {1, 2}
       /\ blobs = [u \in UserIds |->
                     IF u = 1 THEN Registered(resps).blob
                     ELSE Registered(<<Ok(<<PostA1>>)>>).blob]
       /\ collections = [u \in UserIds |->
                           IF u = 1 THEN Registered(resps).coll
                           ELSE Registered(<<Ok(<<PostA1>>)>>).coll]
       /\ conversations = <<>>
       /\ authors = <<>>
       /\ queries = EmptyBag
       /\ handlers = EmptyBag
       /\ tasks = EmptyBag
       /\ last = Idle
       /\ fn = Idle

Init == ContentInit \/ QueryInit

\* every handler of routes.py and the background task
Next ==
    \/ RegisterBegin
    \/ RegisterRun(SyncFeeds)
    \/ QueryBegin
    \/ QueryRun
    \/ UpdateBegin
    \/ UpdateRun
    \/ UpdateFinish
    \/ TaskStart(SyncFeeds)
    \/ TaskStep
    \/ DeleteBegin(MaxHandlers)
    \/ DeleteCommit
    \/ DeleteFinish(DeleteFailures)

Spec == Init /\ [][Next]_vars

\* the steps of Next without those of process_query: registration, update
\* with its task, and deletion
NextContent ==
    \/ RegisterBegin
    \/ RegisterRun(SyncFeeds)
    \/ UpdateBegin
    \/ UpdateRun
    \/ UpdateFinish
    \/ TaskStart(SyncFeeds)
    \/ TaskStep
    \/ DeleteBegin(MaxHandlers)
    \/ DeleteCommit
    \/ DeleteFinish(DeleteFailures)

SpecContent == ContentInit /\ [][NextContent]_vars

\* the steps of Next of process_query and delete_user_data, one deletion
\* at a time
NextQuery ==
    \/ QueryBegin
    \/ QueryRun
    \/ DeleteBegin(1)
    \/ DeleteCommit
    \/ DeleteFinish(DeleteFailures)

SpecQuery == QueryInit /\ [][NextQuery]_vars

(***************************************************************************)
(* Queries in progress together: several requests, all naming the          *)
(* conversation id "9", suspended at the user lookup at the same time.     *)
(***************************************************************************)
MaxConcurrent == 2

ConcurrentBegin == Begin(MaxConcurrent, {<<57>>})

SpecConcurrent == QueryInit /\ [][ConcurrentBegin \/ QueryRun]_vars

(***************************************************************************)
(* Properties.                                                             *)
(***************************************************************************)

\* A finished query that passed every check of the handler and whose
\* collaborators (object store, vector store, embedder) all answered.
Serviceable == last.op = "query" /\ last.stage \in {"augment", "done"}

\* the step in which a task ends
SyncStep == tasks' # tasks /\ tasks' \sqsubseteq tasks


Versions(posts) == {<<posts[i].id, posts[i].modified>> : i \in 1..Len(posts)}

\* C1: a query of a registered user with a non-empty chunk blob whose search
\* returns no hit ends with status 200, a generated response and a
\* conversation id, and its prompt is built from the empty-context
\* placeholder.
C1_EmptyContextAnswered ==
    (Serviceable /\ last.hits = 0) =>
        /\ last.status = 200
        /\ last.conversation_id # <<>>
        /\ last.response \in Replies
        /\ last.augmented_query.formatted_context.items = <<NoContentItem>>

\* C2: after a serviceable query with text q and response r the history of
\* its conversation is the history it found followed by (user, q) and
\* (assistant, r), and the history found under a fresh id is empty.
C2_HistoryAppended ==
    Serviceable =>
        /\ last.status = 200
        /\ last.fresh => last.history = <<>>
        /\ last.conversation_id \in DOMAIN conversations
        /\ conversations[last.conversation_id] =
              last.history \o <<[role |-> "user", content |-> last.query],
                                [role |-> "assistant", content |-> last.response]>>

\* C3: when a serviceable query leaves more conversation ids than the cap,
\* exactly the id smallest in string order has been removed; otherwise
\* none has.
C3_SmallestIdEvicted ==
    Serviceable =>
        LET ids == DOMAIN conversations \cup last.evicted
        IN  /\ last.evicted \cap DOMAIN conversations = {}
            /\ IF Cardinality(ids) > MaxConversations
               THEN last.evicted = {MinStr(ids)}
               ELSE last.evicted = {}

\* C4: whenever no query request is in progress, the table holds at most
\* MaxConversations conversations.
C4_TableWithinCap ==
    queries = EmptyBag => Cardinality(DOMAIN conversations) <= MaxConversations

\* C5: a sync whose feed gives exactly the (id, modified) versions of the
\* cached posts finds no new post and writes neither the posts blob, the
\* chunk blob nor the index.
C5_IdenticalFeedWritesNothing ==
    [][(SyncStep /\ last'.op = "sync" /\ last'.loaded
          /\ Versions(last'.latest) = Versions(last'.existing))
       => (/\ last'.new = 0
           /\ last'.writes = {}
           /\ blobs' = blobs
           /\ collections' = collections)]_vars

C5_Witness ==
    /\ last.op = "sync" /\ last.loaded
    /\ Len(last.existing) = 2
    /\ Versions(last.latest) = Versions(last.existing)
    /\ last.outcome = "no_new"

\* C6: posts_are_equal(a, b) is true exactly when a and b have the same id
\* and the same modified token, whatever their titles and contents.
C6_PostsAreEqualIff ==
    (fn.op = "eq" /\ fn.pc = "out") =>
        (fn.out <=> (fn.post1.id = fn.post2.id
                     /\ fn.post1.modified = fn.post2.modified))

C6_Witness ==
    /\ fn.op = "eq" /\ fn.pc = "out"
    /\ fn.post1.title # fn.post2.title
    /\ fn.post1.content # fn.post2.content
    /\ fn.post1.id = 12
    /\ fn.out

\* C7: the new posts of a sync are, in the order of the latest list, the
\* latest posts no cached post has the (id, modified) of: none for cached =
\* latest, all of them for an empty cache.
C7_NewPostsIsDifference ==
    (fn.op = "diff" /\ fn.pc = "out") =>
        LET Cached(p) == \E i \in 1..Len(fn.cached) :
                            /\ fn.cached[i].id = p.id
                            /\ fn.cached[i].modified = p.modified
            Fresh(p) == ~Cached(p)
        IN  /\ fn.out = SelectSeq(fn.latest, Fresh)
            /\ fn.cached = fn.latest => fn.out = <<>>
            /\ fn.cached = <<>> => fn.out = fn.latest
            /\ \A i \in 1..Len(fn.out) : ~Cached(fn.out[i])

C7_Witness ==
    /\ fn.op = "diff" /\ fn.pc = "out"
    /\ Len(fn.latest) = 2 /\ Len(fn.cached) = 2
    /\ fn.latest[1].id = fn.latest[2].id
    /\ Len(fn.out) = 1
    /\ fn.out[1] = fn.latest[2]

\* C8: every chunk chunk_posts produces has at most max_chunk_size
\* characters or is exactly one sentence longer than that.
C8_ChunkWithinLimit ==
    (fn.op = "chunk" /\ fn.pc = "done") =>
        \A i \in 1..Len(fn.out) :
            \/ TextLen(fn.out[i]) <= max_chunk_size
            \/ Len(fn.out[i]) = 1 /\ fn.out[i][1] > max_chunk_size

\* C9: a fetch one of whose page requests failed with a network error or an
\* error status other than 400 does not return as a success.
C9_FetchFailureSurfaces ==
    (fn.op = "fetch" /\ fn.pc = "out"
       /\ FailedRequests(fn.resps, fn.out.requests) # {})
    => ~fn.out.ok

\* C10: a registration, whatever its feed returns and so also when the
\* fetch returns no post, ends in failure with no user added to the store
\* (each of its steps leaves the users as they were, and the step it ends
\* in, which follows its rollback, answers an error),
\* and a sync of a user who has a posts blob whose fetch returns no post
\* without raising leaves both blobs and the index as they were.
C10_NoContentFetched ==
    [][/\ (\E h \in BagToSet(handlers) :
              h.op = "register" /\ CopiesIn(h, handlers') < CopiesIn(h, handlers))
          => (/\ \/ last'.op = "register" /\ last'.status # 200
                 \/ /\ last' = Idle
                    /\ \E g \in BagToSet(handlers') :
                          /\ g.op = "register" /\ g.pc = "rollback"
                          /\ CopiesIn(g, handlers') > CopiesIn(g, handlers)
              /\ users' = users
              /\ tokens' = tokens)
       /\ (SyncStep /\ last'.had_posts /\ last'.fetch_ok /\ last'.fetched = 0)
          => (/\ last'.writes = {}
              /\ blobs' = blobs
              /\ collections' = collections)]_vars

C10_Witness ==
    /\ last.op = "sync" /\ last.outcome = "no_posts"
    /\ last.had_posts /\ last.fetch_ok /\ last.fetched = 0
    /\ blobs[last.user].posts.data # <<>>
    /\ collections[last.user].entries # <<>>

\* C12: the update request of an authenticated, existing user who names
\* himself is answered 200 "update initiated" while its task is still to
\* run, and a run of the task, whatever fails in it, raises nothing.
C12_UpdateAnswerFixed ==
    [][/\ (last'.op = "update" /\ last' # last /\ last'.known
            /\ last'.body = last'.user)
          => (/\ last'.status = 200
              /\ last'.message = UpdateInitiated
              /\ BagIn(Task(last'.user), tasks'))
       /\ SyncStep => (last'.op = "sync" /\ ~last'.raised)]_vars

C12_Witness ==
    /\ last.op = "sync" /\ last.outcome = "error"
    /\ last.writes = {"posts", "chunked_posts", "index"}
    /\ ~last.raised

\* C13: the name made of a non-empty identifier has only characters of
\* [A-Za-z0-9_-], between 3 and 63 of them, the first and the last
\* alphanumeric, and is the same on a second call.
C13_NameIsValid ==
    (fn.op = "sanitize" /\ fn.pc = "out") =>
        /\ \A i \in 1..Len(fn.out) : fn.out[i] \in AsciiAlnum \cup {95, 45}
        /\ Len(fn.out) >= min_name_len /\ Len(fn.out) <= max_name_len
        /\ fn.out[1] \in AsciiAlnum
        /\ fn.out[Len(fn.out)] \in AsciiAlnum
        /\ fn.again = fn.out

\* C14: delete_collection for a user who has no collection returns
\* normally and leaves the store as it was.
C14_DeleteAbsentCollection ==
    (last.op = "delete_collection" /\ ~last.existed)
    => (~last.raised /\ collections[last.user] = NoCollection)

\* C15: the history a query of a user works on was made by a request of
\* that user and holds only turns of that user's queries, whatever
\* conversation id the request names.
C15_HistoriesIndependent ==
    (last.op = "query" /\ last.stage \notin {"user", "user_id"}) =>
        /\ last.creator = last.user
        /\ \A i \in 1..Len(last.turns_by) : last.turns_by[i] = last.user

\* C16: a serviceable query that was in progress together with another
\* query on the same conversation id succeeds and leaves the history it
\* found followed by its user turn and then its assistant turn: no turn is
\* lost and no pair is split.
C16_ConcurrentTurnsKept ==
    [][(queries' # queries /\ queries' \sqsubseteq queries
          /\ last'.op = "query" /\ last'.stage \in {"augment", "done"}
          /\ last'.concurrent)
       => (/\ last'.status = 200
           /\ last'.conversation_id \in DOMAIN conversations'
           /\ conversations'[last'.conversation_id] =
                 (IF last'.conversation_id \in DOMAIN conversations
                  THEN conversations[last'.conversation_id] ELSE <<>>)
                 \o <<[role |-> "user", content |-> last'.query],
                      [role |-> "assistant", content |-> last'.response]>>)]_vars

\* C17: when a pass of the sentence loop closes a chunk, the chunk it
\* starts is the overlap, which is the last two sentences (or the only
\* one) of the chunk just closed, followed by the sentence that did not
\* fit; the overlap never holds more than two sentences.
C17_OverlapAtMostTwoSentences ==
    (fn.op = "chunk" /\ fn.pc = "loop" /\ fn.closed) =>
        LET closed_chunk == fn.st.chunks[Len(fn.st.chunks)]
            overlap == fn.st.current_chunk[1]
        IN  /\ Len(fn.st.current_chunk) = 2
            /\ fn.st.current_chunk[2] = <<fn.sentences[fn.i - 1]>>
            /\ Len(overlap) <= 2
            /\ overlap = LastN(closed_chunk, 2)

\* the number of non-empty pages a feed starts with, and their posts
LeadingPages(resps) ==
    CHOOSE k \in 0..Len(resps) :
        /\ \A i \in 1..k : resps[i].kind = "ok"
        /\ k < Len(resps) => resps[k + 1].kind # "ok"

PagesPosts(resps, k) == Flatten([i \in 1..k |-> resps[i].posts])

\* C18: a page request that fails with a network error is made again
\* unless the bound of 3 attempts is reached, no fetch makes more than 3
\* attempts, and a fetch whose first request fails and whose later
\* requests are answered returns all the posts of the feed.
C18_TransientFailureRetried ==
    (fn.op = "fetch" /\ fn.pc = "out") =>
        /\ fn.out.attempts <= stop_after_attempt
        /\ \A n \in 1..Min(fn.out.requests, Len(fn.resps)) :
              fn.resps[n].kind = "neterr"
              => (fn.out.requests > n \/ fn.out.attempts = stop_after_attempt)
        /\ (/\ fn.resps # <<>>
            /\ fn.resps[1].kind = "neterr"
            /\ \A n \in 2..Len(fn.resps) : fn.resps[n].kind = "ok")
           => (fn.out.ok
               /\ fn.out.posts = PagesPosts(Tail(fn.resps), Len(fn.resps) - 1))

\* C19: on a feed of k non-empty pages followed by an empty page or by
\* status 400 the fetch makes the requests 1 .. k+1 in one attempt and
\* returns the posts of the k pages in page order: no post, and no error,
\* for k = 0.
C19_PagesUntilEmptyOr400 ==
    (fn.op = "fetch" /\ fn.pc = "out") =>
        LET k == LeadingPages(fn.resps)
        IN  RespAt(fn.resps, k + 1).kind \in {"empty", "s400"}
            => (/\ fn.out.ok
                /\ fn.out.attempts = 1
                /\ fn.out.requests = k + 1
                /\ fn.out.posts = PagesPosts(fn.resps, k))

C19_Witness ==
    /\ fn.op = "fetch" /\ fn.pc = "out"
    /\ Len(fn.resps) = 3
    /\ fn.resps[1].kind = "ok" /\ fn.resps[2].kind = "ok"
    /\ fn.resps[1] # fn.resps[2]
    /\ fn.resps[3].kind = "s400"
    /\ fn.out.ok
    /\ fn.out.posts = PageA \o PageB

\* C20: no upsert call of update_chroma_index carries more than batch_size
\* entries; when it has completed, every chunk of every post was written
\* in exactly one call made for that post, under the key
\* "<post id>_<ordinal>" with its text and its post's metadata, no other
\* key was written, and every written key holds what the last call that
\* carried it wrote, the other keys what they held before.
C20_EveryChunkOnceLastWins ==
    (fn.op = "index") =>
        /\ \A c \in 1..Len(fn.calls) :
              /\ Cardinality(DOMAIN fn.calls[c].batch) <= batch_size
              /\ Cardinality(DOMAIN fn.calls[c].batch) > 0
        /\ fn.pc = "done" =>
              LET Keys(p) == {EntryId(fn.posts[p], n) :
                                 n \in 0..(Len(fn.posts[p].chunks) - 1)}
                  CallsOf(k) == {c \in 1..Len(fn.calls) : k \in DOMAIN fn.calls[c].batch}
                  LastCall(k) == CHOOSE c \in CallsOf(k) : \A d \in CallsOf(k) : d <= c
              IN  /\ \A p \in 1..Len(fn.posts) :
                        \A n \in 0..(Len(fn.posts[p].chunks) - 1) :
                           LET k == EntryId(fn.posts[p], n)
                               cs == {c \in CallsOf(k) : fn.calls[c].p = p}
                           IN  /\ Cardinality(cs) = 1
                               /\ \A c \in cs :
                                     fn.calls[c].batch[k] =
                                        [document |-> fn.posts[p].chunks[n + 1],
                                         title |-> fn.posts[p].title,
                                         post_id |-> fn.posts[p].id]
                  /\ \A c \in 1..Len(fn.calls) :
                        DOMAIN fn.calls[c].batch \subseteq Keys(fn.calls[c].p)
                  /\ DOMAIN fn.entries =
                        DOMAIN fn.before \cup UNION {Keys(p) : p \in 1..Len(fn.posts)}
                  /\ \A k \in DOMAIN fn.entries :
                        fn.entries[k] = IF CallsOf(k) = {} THEN fn.before[k]
                                        ELSE fn.calls[LastCall(k)].batch[k]
                  /\ fn.entries = IndexPosts(fn.before, fn.posts, Len(fn.posts))

C20_Witness ==
    /\ fn.op = "index" /\ fn.pc = "done"
    /\ Len(fn.posts) = 2
    /\ fn.posts[1].id = 1 /\ fn.posts[2].id = 1
    /\ fn.posts[1].title # fn.posts[2].title
    /\ Len(fn.posts[1].chunks) = batch_size + 1
    /\ Len(fn.posts[2].chunks) = 2
    /\ fn.before # <<>>
    /\ Len(fn.calls) = 3
    /\ fn.entries[EntryId(fn.posts[2], 0)].title = fn.posts[2].title

\* C21: get_context never raises and returns at most max_chunks items, the
\* first hits of the result in the store's order; for a result that is
\* empty, has no documents, lacks the metadata or the distance of a hit, or
\* has a metadata that is no mapping, it returns the empty list.
C21_ContextFirstHitsOrEmpty ==
    (fn.op = "get_context" /\ fn.pc = "done") =>
        LET r == fn.results
            Lists(key) == IF key = "documents" THEN r.documents
                          ELSE IF key = "metadatas" THEN r.metadatas ELSE r.distances
            Missing(key) == key \notin r.keys \/ Lists(key) = <<>>
            Empty == r.none \/ r.keys = {} \/ Missing("documents")
                       \/ r.documents[1] = <<>>
            hits == Len(r.documents[1])
            Malformed ==
                \/ Missing("metadatas") \/ Missing("distances")
                \/ Len(r.metadatas[1]) < hits
                \/ Len(r.distances[1]) < hits
                \/ \E i \in 1..hits : ~r.metadatas[1][i].mapping
        IN  /\ ~fn.raised
            /\ Len(fn.out) <= max_chunks
            /\ (Empty \/ Malformed) => fn.out = <<>>
            /\ ~Empty => \A i \in 1..Len(fn.out) : fn.out[i].content = r.documents[1][i]
            /\ (~Empty /\ ~Malformed /\ \A i \in 1..hits : r.distances[1][i].number)
                  => Len(fn.out) = Min(max_chunks, hits)

\* C22: what the generation service receives is, in this order, the
\* rendered context, the last history_turns turns of the history in their
\* order with their roles, and the text of the query as the user sent it;
\* no older turn is part of it.
C22_GenerationInputOrder ==
    (fn.op = "generate" /\ fn.pc = "done") =>
        LET turns == LastN(fn.chat_history, history_turns)
        IN  fn.parts =
               <<[part |-> "context",
                  items |-> [i \in 1..Len(fn.context) |->
                                [title |-> fn.context[i].title,
                                 content |-> fn.context[i].content]]]>>
               \o [i \in 1..Len(turns) |->
                      [part |-> "turn", role |-> turns[i].role, text |-> turns[i].content]]
               \o <<[part |-> "query", text |-> fn.query]>>

\* C23: whenever no sync of a user is between two of its upsert calls,
\* every post of the cached posts has an entry in the cached chunked
\* posts, and every chunk of that entry has its entry in the user's index;
\* also after a sync that failed part-way.
C23_SyncIsOneUnit ==
    \A u \in DOMAIN users :
       (blobs[u].posts.present
        /\ ~\E task \in BagToSet(tasks) : task.user = u /\ task.pc = "indexing") =>
          \A i \in 1..Len(blobs[u].posts.data) :
             LET post == blobs[u].posts.data[i]
                 chunked == blobs[u].chunked_posts.data
             IN  /\ blobs[u].chunked_posts.present
                 /\ \E j \in 1..Len(chunked) : chunked[j].id = post.id
                 /\ \A j \in 1..Len(chunked) :
                       chunked[j].id = post.id =>
                          \A n \in 0..(Len(chunked[j].chunks) - 1) :
                             EntryId(chunked[j], n) \in DOMAIN collections[u].entries

\* C24: a query or an update that a check of its handler rejected (404 user
\* not found, 403 user id mismatch, 400 no stored content) is answered with
\* the status the check raised, never with 500.
C24_RejectionKeepsStatus ==
    (last.op \in {"query", "update"} /\ last.raised \in {400, 403, 404})
        => last.status = last.raised

\* C25: when a query returns with conversation id c, the table holds c,
\* the history of c ends with the user turn and the assistant turn of this
\* query, and the eviction of this request has not removed c.
C25_ReturnedConversationKept ==
    (fn.op = "append" /\ fn.pc = "done") =>
        /\ fn.conversation_id \notin fn.evicted
        /\ fn.conversation_id \in DOMAIN fn.table
        /\ LastN(fn.table[fn.conversation_id], 2) =
              <<[role |-> "user", content |-> fn.query],
                [role |-> "assistant", content |-> fn.response]>>

====
